---- MODULE Spec2Model ----
(***************************************************************************)
(* go-rpc: an RPC service over HTTP with JSON-encoded arguments and        *)
(* results.  The model follows src/rpc.go: NewServer builds the method     *)
(* registry by reflection, Server.ServeHTTP answers one request, and       *)
(* Client.Call performs one round trip.  Several calls run concurrently,   *)
(* each with its own request, handler frame and response.                  *)
(***************************************************************************)
EXTENDS Integers, Sequences, FiniteSets, TLC

(***************************************************************************)
(* Bounds of the model.                                                    *)
(***************************************************************************)
\* Largest integer a caller passes as an argument (arguments are 1..MaxInt).
MaxInt == 2
\* The numIn a caller passes to Client.Call: fewer inputs than a method
\* declares, as many, and more.
InCounts == {0, 1, 2}
\* The concurrent calls (one goroutine each running Client.Call once).
Calls == {"c1", "c2"}

(***************************************************************************)
(* Program constants.                                                      *)
(***************************************************************************)
errCodeOk == 0
errCodeUnknownMethod == 1
\* Codes the tests and the protocol description name; rpc.go defines neither.
ErrCodePanic == 2
ErrCodeServerError == 3
\* The success status a handler's first Write implies.
StatusOK == 200
\* Statuses the HTTP layer answers with when no handler produced the response
\* (no handler for the path, a failing intermediary).
NonSuccessStatuses == {404, 502}

(***************************************************************************)
(* Go values.                                                              *)
(***************************************************************************)
GoInt(n) == [t |-> "int", n |-> n]
GoString(s) == [t |-> "string", s |-> s]
\* A value encoding/json cannot represent (a channel).
GoChan == [t |-> "chan"]
\* A pointer to a variable of type typ holding val.
GoPtr(typ, val) == [t |-> "ptr", typ |-> typ, val |-> val]
\* reflect.ValueOf(r): the *http.Request of dispatch c.
GoRequest(c) == [t |-> "request", id |-> c]
\* reflect.New(typ) followed by reflect.Indirect: the zero value of typ.
ZeroValue(typ) == IF typ = "int" THEN GoInt(0) ELSE GoString(<<>>)

(***************************************************************************)
(* encoding/json on the values the model uses.  JSON text is a sequence    *)
(* of characters.                                                          *)
(***************************************************************************)
DigitChars == <<"0", "1", "2", "3", "4", "5", "6", "7", "8", "9">>
IsDigit(ch) == \E d \in 1..10 : DigitChars[d] = ch
DigitVal(ch) == (CHOOSE d \in 1..10 : DigitChars[d] = ch) - 1

RECURSIVE NatToChars(_)
NatToChars(n) ==
  IF n < 10 THEN <<DigitChars[n + 1]>>
  ELSE NatToChars(n \div 10) \o <<DigitChars[(n % 10) + 1]>>

RECURSIVE CharsToNat(_)
CharsToNat(s) ==
  IF Len(s) = 0 THEN 0
  ELSE CharsToNat(SubSeq(s, 1, Len(s) - 1)) * 10 + DigitVal(s[Len(s)])

IntToJson(n) == IF n < 0 THEN <<"-">> \o NatToChars(-n) ELSE NatToChars(n)

\* A JSON string literal: the characters between quotes, with " and \ escaped.
RECURSIVE EscapeChars(_)
EscapeChars(s) ==
  IF Len(s) = 0 THEN <<>>
  ELSE (IF s[1] \in {"\"", "\\"} THEN <<"\\", s[1]>> ELSE <<s[1]>>)
         \o EscapeChars(Tail(s))

QuoteJson(s) == <<"\"">> \o EscapeChars(s) \o <<"\"">>

\* The inside of a string literal is well formed: every \ escapes a " or a \,
\* and no bare " occurs.
RECURSIVE EscapedOk(_)
EscapedOk(s) ==
  IF Len(s) = 0 THEN TRUE
  ELSE IF s[1] = "\\" THEN Len(s) >= 2 /\ s[2] \in {"\"", "\\"}
                            /\ EscapedOk(SubSeq(s, 3, Len(s)))
  ELSE s[1] # "\"" /\ EscapedOk(Tail(s))

RECURSIVE UnescapeChars(_)
UnescapeChars(s) ==
  IF Len(s) = 0 THEN <<>>
  ELSE IF s[1] = "\\" THEN <<s[2]>> \o UnescapeChars(SubSeq(s, 3, Len(s)))
  ELSE <<s[1]>> \o UnescapeChars(Tail(s))

IsJsonString(j) ==
  /\ Len(j) >= 2
  /\ j[1] = "\""
  /\ j[Len(j)] = "\""
  /\ EscapedOk(SubSeq(j, 2, Len(j) - 1))

UnquoteJson(j) == UnescapeChars(SubSeq(j, 2, Len(j) - 1))

IsJsonNat(j) ==
  /\ Len(j) >= 1
  /\ \A i \in 1..Len(j) : IsDigit(j[i])
  /\ (Len(j) > 1 => j[1] # "0")

IsJsonInt(j) ==
  \/ IsJsonNat(j)
  \/ Len(j) >= 2 /\ j[1] = "-" /\ IsJsonNat(Tail(j))

JsonToInt(j) == IF j[1] = "-" THEN 0 - CharsToNat(Tail(j)) ELSE CharsToNat(j)

\* json.Marshal of a Go value: the text, or an error for a value JSON cannot
\* represent.
Marshal(v) ==
  CASE v.t = "int" -> [ok |-> TRUE, json |-> IntToJson(v.n)]
    [] v.t = "string" -> [ok |-> TRUE, json |-> QuoteJson(v.s)]
    [] v.t = "ptr" /\ v.val.t = "int" -> [ok |-> TRUE, json |-> IntToJson(v.val.n)]
    [] v.t = "ptr" /\ v.val.t = "string" -> [ok |-> TRUE, json |-> QuoteJson(v.val.s)]
    [] OTHER -> [ok |-> FALSE, json |-> <<>>]

\* json.Unmarshal of text j into a variable of type typ holding old: on an
\* error the variable keeps its value.
Unmarshal(j, typ, old) ==
  CASE typ = "int" /\ IsJsonInt(j) -> [ok |-> TRUE, val |-> GoInt(JsonToInt(j))]
    [] typ = "string" /\ IsJsonString(j) ->
         [ok |-> TRUE, val |-> GoString(UnquoteJson(j))]
    [] OTHER -> [ok |-> FALSE, val |-> old]

(***************************************************************************)
(* The rpcResponse envelope on the wire.  json.Marshal writes the object   *)
(* {"Code":n,"Outs":[...]}; a nil Outs is written as null.  The body is    *)
(* kept as the object's members, each in its JSON text.                    *)
(***************************************************************************)
JsonNull == <<"n", "u", "l", "l">>

\* A Go []string: the nil slice, or a slice holding elems.
NilSlice == [nil |-> TRUE, elems |-> <<>>]
Slice(elems) == [nil |-> FALSE, elems |-> elems]

rpcResponse(code, outs) == [Code |-> code, Outs |-> outs]

MarshalResponse(res) ==
  [obj |-> TRUE,
   Code |-> IntToJson(res.Code),
   Outs |-> IF res.Outs.nil THEN [null |-> TRUE, items |-> <<>>]
            ELSE [null |-> FALSE,
                  items |-> [i \in 1..Len(res.Outs.elems) |->
                               QuoteJson(res.Outs.elems[i])]]]

\* json.Decoder.Decode into a rpcResponse: an error for a body that is not a
\* JSON object of this shape; a null Outs decodes to the nil slice.
DecodeResponse(body) ==
  IF body.obj /\ IsJsonInt(body.Code)
       /\ \A i \in 1..Len(body.Outs.items) : IsJsonString(body.Outs.items[i])
  THEN [ok |-> TRUE,
        res |-> rpcResponse(JsonToInt(body.Code),
                  IF body.Outs.null THEN NilSlice
                  ELSE Slice([i \in 1..Len(body.Outs.items) |->
                                UnquoteJson(body.Outs.items[i])]))]
  ELSE [ok |-> FALSE, res |-> rpcResponse(0, NilSlice)]

\* The body the HTTP layer sends with a non-success status: plain text, no
\* JSON object.
ErrorPage(status) == [obj |-> FALSE, text |-> IntToJson(status)]

(***************************************************************************)
(* The service object.  Its method set joins the methods of the test       *)
(* services Arith (Add, Sub) and bad (Panic); params are the declared      *)
(* parameters after the receiver.  NewServer takes any object: Ping, a     *)
(* method with the request as its only parameter, and Swap, a method with  *)
(* two results, are further methods of the object handed to it.            *)
(***************************************************************************)
pHttpRequestType == "*http.Request"
FaultText == "Just panic!"

Service ==
  { [name |-> "Add", params |-> <<"int", "int">>, numOut |-> 1],
    [name |-> "Sub", params |-> <<pHttpRequestType, "int", "int">>, numOut |-> 1],
    [name |-> "Panic", params |-> <<>>, numOut |-> 0],
    [name |-> "Ping", params |-> <<pHttpRequestType>>, numOut |-> 1],
    [name |-> "Swap", params |-> <<"int", "int">>, numOut |-> 2] }

\* reflect.Value.Call on a method of the service: the returned values, or the
\* fault the body raises.  callArr[1] is the receiver.
Invoke(fn, callArr) ==
  CASE fn = "Add" ->
         [fault |-> FALSE, info |-> "", outs |-> <<GoInt(callArr[2].n + callArr[3].n)>>]
    [] fn = "Sub" ->
         [fault |-> FALSE, info |-> "", outs |-> <<GoInt(callArr[3].n - callArr[4].n)>>]
    [] fn = "Ping" -> [fault |-> FALSE, info |-> "", outs |-> <<GoInt(1)>>]
    [] fn = "Swap" ->
         [fault |-> FALSE, info |-> "", outs |-> <<callArr[3], callArr[2]>>]
    [] OTHER -> [fault |-> TRUE, info |-> FaultText, outs |-> <<>>]

\* methodInfo that does not tell the request parameter from the inputs.
methodInfoNoContext(m) ==
  [funcValue |-> m.name, needRequest |-> FALSE, inTypes |-> m.params]

\* methodInfo that takes the first parameter for the request whatever its type.
methodInfoSkipsFirst(m) ==
  LET NumIn == Len(m.params) + 1
      needRequest == NumIn > 1
      first == IF needRequest THEN 2 ELSE 1
  IN [funcValue |-> m.name,
      needRequest |-> needRequest,
      inTypes |-> IF NumIn > first
                  THEN [i \in 1..(NumIn - first) |-> m.params[i + first - 1]]
                  ELSE <<>>]

\* The registry NewServer builds: one methodInfo per method of o, keyed by name.
methodInfo(m) ==
  LET NumIn == Len(m.params) + 1
      needRequest == NumIn > 1 /\ m.params[1] = pHttpRequestType
      first == IF needRequest THEN 2 ELSE 1
  IN [funcValue |-> m.name,
      needRequest |-> needRequest,
      inTypes |-> IF NumIn > first
                  THEN [i \in 1..(NumIn - first) |-> m.params[i + first - 1]]
                  ELSE <<>>]

NewServer(o) ==
  [oValue |-> [t |-> "receiver"],
   methods |-> [n \in {m.name : m \in o} |->
                  methodInfo(CHOOSE m \in o : m.name = n)]]

(***************************************************************************)
(* Errors Client.Call returns.                                             *)
(***************************************************************************)
NoErr == [kind |-> "nil"]
\* json.Marshal's error for an input (line 217).
MarshalErr == [kind |-> "json.UnsupportedTypeError"]
\* http.Client.PostForm's error (line 227).
TransportErr == [kind |-> "url.Error"]
\* json.Decoder.Decode's error for the body (line 235).
BodyErr == [kind |-> "json.SyntaxError"]
\* errors.New(fmt.Sprintf("Error code: %d", code)) (line 239).
CodeErr(code) == [kind |-> "errors.errorString",
                  text |-> <<"Error code: ", IntToJson(code)>>]
\* json.Unmarshal's error for an output (line 245).
OutErr == [kind |-> "json.UnmarshalTypeError"]

(***************************************************************************)
(* State.                                                                  *)
(***************************************************************************)
VARIABLES
  server,    \* the *Server NewServer returned: oValue and the methods map
  serving,   \* the process running http.ListenAndServe is alive
  call,      \* call[c]: the frame of Client.Call c
  net,       \* net[c]: the HTTP exchange of call c (request, response, failure)
  handler    \* handler[c]: the frame of Server.ServeHTTP for request c

vars == <<server, serving, call, net, handler>>

\* What a caller may pass as an input.
ArgValues == {GoInt(n) : n \in 1..MaxInt}
\* A pointer to a caller's int variable holding 0 (var C int; &C).
IntDest == [t |-> "ptr", typ |-> "int", val |-> GoInt(0)]
MethodNames == {m.name : m \in Service} \cup {"Xyz"}
\* The names the tests call: Add and Sub, Panic, and a name not registered.
TestedNames == {"Add", "Sub", "Panic", "Xyz"}

IdleCall == [pc |-> "idle", numIn |-> 0, method |-> "", inPOuts |-> <<>>,
             err |-> NoErr]
NoExchange == [st |-> "none"]
NoHandler == [pc |-> "none", callArr |-> <<>>, info |-> ""]

Init ==
  /\ server = NewServer(Service)
  /\ serving = TRUE
  /\ call = [c \in Calls |-> IdleCall]
  /\ net = [c \in Calls |-> NoExchange]
  /\ handler = [c \in Calls |-> NoHandler]

(***************************************************************************)
(* Client.Call, first half (lines 212-228): encode the first numIn values  *)
(* in order, stop at the first failure, else post the form.                *)
(***************************************************************************)
\* An encoding loop that drops a Marshal error and sends the empty text.
RECURSIVE EncodeInputsSkipErrors(_, _, _)
EncodeInputsSkipErrors(inPOuts, numIn, i) ==
  IF i > numIn THEN [ok |-> TRUE, inJsons |-> <<>>]
  ELSE [ok |-> TRUE,
        inJsons |-> <<Marshal(inPOuts[i]).json>>
                      \o EncodeInputsSkipErrors(inPOuts, numIn, i + 1).inJsons]

RECURSIVE EncodeInputs(_, _, _)
EncodeInputs(inPOuts, numIn, i) ==
  IF i > numIn THEN [ok |-> TRUE, inJsons |-> <<>>]
  ELSE LET m == Marshal(inPOuts[i]) IN
       IF ~m.ok THEN [ok |-> FALSE, inJsons |-> <<>>]
       ELSE LET rest == EncodeInputs(inPOuts, numIn, i + 1) IN
            [ok |-> rest.ok, inJsons |-> <<m.json>> \o rest.inJsons]

Call(c, numIn, method, inPOuts) ==
  /\ call[c].pc = "idle"
  /\ LET enc == EncodeInputs(inPOuts, numIn, 1) IN
     IF ~enc.ok
     THEN /\ call' = [call EXCEPT ![c] =
                        [pc |-> "done", numIn |-> numIn, method |-> method,
                         inPOuts |-> inPOuts, err |-> MarshalErr]]
          /\ net' = net
     ELSE /\ call' = [call EXCEPT ![c] =
                        [pc |-> "posted", numIn |-> numIn, method |-> method,
                         inPOuts |-> inPOuts, err |-> NoErr]]
          /\ net' = [net EXCEPT ![c] =
                       [st |-> "request", method |-> method, in |-> enc.inJsons]]
  /\ UNCHANGED <<server, serving, handler>>

(***************************************************************************)
(* The HTTP layer between client and handler.                              *)
(***************************************************************************)
\* The round trip fails before any handler runs (no listener, broken
\* connection): PostForm returns an error.
PostFail(c) ==
  /\ net[c].st = "request"
  /\ handler[c].pc = "none"
  /\ net' = [net EXCEPT ![c] = [st |-> "refused"]]
  /\ UNCHANGED <<server, serving, call, handler>>

\* The HTTP layer answers by itself with a non-success status (the path has
\* no handler): the handler never sees the request.
StatusReply(c, status) ==
  /\ net[c].st = "request"
  /\ handler[c].pc = "none"
  /\ net' = [net EXCEPT ![c] =
               [st |-> "response", status |-> status, body |-> ErrorPage(status)]]
  /\ UNCHANGED <<server, serving, call, handler>>

\* A panic leaves ServeHTTP: net/http recovers it in the connection's own
\* goroutine and closes that connection; the process keeps serving.
ServingAfterPanicCrash == FALSE

ServingAfterPanic == serving

\* A panicking handler whose connection is left open: the exchange stays as
\* it is and the client keeps waiting for a response.
NetAfterPanicHang(c) == net

\* The connections after request c's handler panicked.
NetAfterPanic(c) == [net EXCEPT ![c] = [st |-> "aborted"]]

(***************************************************************************)
(* Server.ServeHTTP (lines 80-122).                                        *)
(***************************************************************************)
\* s.methods[mname] (line 83): nil for a name the map does not hold.
HasMethod(mname) == mname \in DOMAIN server.methods

\* A lookup that stores an entry for a name it does not find.
MethodsAfterLookupInsert(mname) ==
  [n \in DOMAIN server.methods \cup {mname} |->
     IF n \in DOMAIN server.methods THEN server.methods[n]
     ELSE [funcValue |-> n, needRequest |-> FALSE, inTypes |-> <<>>]]

\* Reading a Go map leaves it as it is.
MethodsAfterLookup(mname) == server.methods

\* An unknown-method envelope that carries an entry in Outs.
UnknownMethodReplyWithOuts(mname) ==
  MarshalResponse(rpcResponse(errCodeUnknownMethod, Slice(<<JsonNull>>)))

\* Lines 85-88: the envelope for an unknown method.
UnknownMethodReply(mname) ==
  MarshalResponse(rpcResponse(errCodeUnknownMethod, NilSlice))

\* Arguments decoded from a form shared by the requests being served: the
\* "in" values of another request still waiting, when there is one.
AssembleArgsShared(c, mi, inJsons) ==
  LET others == {d \in Calls \ {c} : net[d].st = "request"
                                       /\ Len(net[d].in) >= Len(mi.inTypes)}
      form == IF others = {} THEN inJsons
              ELSE net[CHOOSE d \in others : TRUE].in
  IN <<server.oValue>>
       \o (IF mi.needRequest THEN <<GoRequest(c)>> ELSE <<>>)
       \o [i \in 1..Len(mi.inTypes) |->
             Unmarshal(form[i], mi.inTypes[i], ZeroValue(mi.inTypes[i])).val]

\* Arguments decoded up to the first "in" value that does not decode: that
\* argument and every later one stay zero.
AssembleArgsStopAtError(c, mi, inJsons) ==
  LET ok(i) == Unmarshal(inJsons[i], mi.inTypes[i], ZeroValue(mi.inTypes[i])).ok
  IN <<server.oValue>>
       \o (IF mi.needRequest THEN <<GoRequest(c)>> ELSE <<>>)
       \o [i \in 1..Len(mi.inTypes) |->
             IF \A j \in 1..i : ok(j)
             THEN Unmarshal(inJsons[i], mi.inTypes[i], ZeroValue(mi.inTypes[i])).val
             ELSE ZeroValue(mi.inTypes[i])]

\* Arguments assembled from every "in" value of the form, those beyond the
\* declared input types decoded as ints.
AssembleArgsAll(c, mi, inJsons) ==
  <<server.oValue>>
    \o (IF mi.needRequest THEN <<GoRequest(c)>> ELSE <<>>)
    \o [i \in 1..Len(inJsons) |->
          LET typ == IF i <= Len(mi.inTypes) THEN mi.inTypes[i] ELSE "int"
          IN Unmarshal(inJsons[i], typ, ZeroValue(typ)).val]

\* Lines 94-107: receiver, the request when the method needs it, then one
\* fresh value per input type, decoded from the same position of the form's
\* "in" values; a decode error is dropped and the value stays zero.
AssembleArgs(c, mi, inJsons) ==
  <<server.oValue>>
    \o (IF mi.needRequest THEN <<GoRequest(c)>> ELSE <<>>)
    \o [i \in 1..Len(mi.inTypes) |->
          Unmarshal(inJsons[i], mi.inTypes[i], ZeroValue(mi.inTypes[i])).val]

\* Lines 111-120: each returned value encoded on its own, in order (a Marshal
\* error is dropped and leaves the empty string).
OkReply(outs) ==
  MarshalResponse(rpcResponse(errCodeOk,
    Slice([i \in 1..Len(outs) |-> Marshal(outs[i]).json])))

\* A dispatch without the return of line 89: having written the envelope for
\* an unknown name it goes on to assemble arguments for the nil entry.
ServeHTTP_DispatchNoReturn(c) ==
  /\ serving
  /\ net[c].st = "request"
  /\ handler[c].pc = "none"
  /\ LET mname == net[c].method
         inJsons == net[c].in
     IN /\ server' = [server EXCEPT !.methods = MethodsAfterLookup(mname)]
        /\ IF ~HasMethod(mname) \/ Len(inJsons) < Len(server.methods[mname].inTypes)
           THEN /\ handler' = [handler EXCEPT ![c] =
                                 [pc |-> "panicked", callArr |-> <<>>,
                                  info |-> "nil pointer or index out of range"]]
                /\ net' = NetAfterPanic(c)
                /\ serving' = ServingAfterPanic
           ELSE /\ handler' = [handler EXCEPT ![c] =
                                 [pc |-> "assembled",
                                  callArr |-> AssembleArgs(c, server.methods[mname],
                                                           inJsons),
                                  info |-> ""]]
                /\ net' = net
                /\ serving' = serving
  /\ UNCHANGED call

\* Lines 81-107: look the method up; answer an unknown name at once; else
\* assemble the arguments.  inJsons[i] with too few "in" values panics.
ServeHTTP_Dispatch(c) ==
  /\ serving
  /\ net[c].st = "request"
  /\ handler[c].pc = "none"
  /\ LET mname == net[c].method
         inJsons == net[c].in
     IN /\ server' = [server EXCEPT !.methods = MethodsAfterLookup(mname)]
        /\ IF ~HasMethod(mname)
           THEN /\ handler' = [handler EXCEPT ![c].pc = "returned"]
                /\ net' = [net EXCEPT ![c] =
                             [st |-> "response", status |-> StatusOK,
                              body |-> UnknownMethodReply(mname)]]
                /\ serving' = serving
           ELSE LET mi == server.methods[mname] IN
                IF Len(inJsons) < Len(mi.inTypes)
                THEN /\ handler' = [handler EXCEPT ![c] =
                                      [pc |-> "panicked", callArr |-> <<>>,
                                       info |-> "index out of range"]]
                     /\ net' = NetAfterPanic(c)
                     /\ serving' = ServingAfterPanic
                ELSE /\ handler' = [handler EXCEPT ![c] =
                                      [pc |-> "assembled",
                                       callArr |-> AssembleArgs(c, mi, inJsons),
                                       info |-> ""]]
                     /\ net' = net
                     /\ serving' = serving
  /\ UNCHANGED call

\* Lines 109-121: invoke the method; a fault in it unwinds ServeHTTP, which
\* has no recover; else write the Ok envelope.
ServeHTTP_Invoke(c) ==
  /\ serving
  /\ handler[c].pc = "assembled"
  /\ LET mi == server.methods[net[c].method]
         r == Invoke(mi.funcValue, handler[c].callArr)
     IN IF r.fault
        THEN /\ handler' = [handler EXCEPT ![c].pc = "panicked", ![c].info = r.info]
             /\ net' = NetAfterPanic(c)
             /\ serving' = ServingAfterPanic
        ELSE /\ handler' = [handler EXCEPT ![c].pc = "returned"]
             /\ net' = [net EXCEPT ![c] =
                          [st |-> "response", status |-> StatusOK,
                           body |-> OkReply(r.outs)]]
             /\ serving' = serving
  /\ UNCHANGED <<server, call>>

(***************************************************************************)
(* Client.Call, second half (lines 226-250).                               *)
(***************************************************************************)
\* The loop writing output i (counted from 1) to position numIn+i-1.
RECURSIVE DecodeOutsOffByOne(_, _, _, _)
DecodeOutsOffByOne(outs, inPOuts, numIn, i) ==
  IF i > Len(outs) THEN [slots |-> inPOuts, err |-> NoErr, panic |-> FALSE]
  ELSE IF numIn + i - 1 > Len(inPOuts) \/ numIn + i - 1 < 1
       THEN [slots |-> inPOuts, err |-> NoErr, panic |-> TRUE]
  ELSE LET dst == inPOuts[numIn + i - 1] IN
       IF dst.t # "ptr" THEN [slots |-> inPOuts, err |-> OutErr, panic |-> FALSE]
       ELSE LET u == Unmarshal(outs[i], dst.typ, dst.val) IN
            IF ~u.ok THEN [slots |-> inPOuts, err |-> OutErr, panic |-> FALSE]
            ELSE DecodeOutsOffByOne(outs,
                                    [inPOuts EXCEPT ![numIn + i - 1].val = u.val],
                                    numIn, i + 1)

\* The loop writing output i to position i, the count of inputs forgotten.
RECURSIVE DecodeOutsFromStart(_, _, _, _)
DecodeOutsFromStart(outs, inPOuts, numIn, i) ==
  IF i > Len(outs) THEN [slots |-> inPOuts, err |-> NoErr, panic |-> FALSE]
  ELSE IF i > Len(inPOuts)
       THEN [slots |-> inPOuts, err |-> NoErr, panic |-> TRUE]
  ELSE LET dst == inPOuts[i] IN
       IF dst.t # "ptr" THEN [slots |-> inPOuts, err |-> OutErr, panic |-> FALSE]
       ELSE LET u == Unmarshal(outs[i], dst.typ, dst.val) IN
            IF ~u.ok THEN [slots |-> inPOuts, err |-> OutErr, panic |-> FALSE]
            ELSE DecodeOutsFromStart(outs, [inPOuts EXCEPT ![i].val = u.val],
                                     numIn, i + 1)

\* The loop going on after an output that does not decode: it decodes the
\* later outputs too and returns the error it met.
RECURSIVE DecodeOutsKeepGoing(_, _, _, _)
DecodeOutsKeepGoing(outs, inPOuts, numIn, i) ==
  IF i > Len(outs) THEN [slots |-> inPOuts, err |-> NoErr, panic |-> FALSE]
  ELSE IF numIn + i > Len(inPOuts)
       THEN [slots |-> inPOuts, err |-> NoErr, panic |-> TRUE]
  ELSE LET dst == inPOuts[numIn + i]
           u == IF dst.t = "ptr" THEN Unmarshal(outs[i], dst.typ, dst.val)
                ELSE [ok |-> FALSE, val |-> dst]
           rest == DecodeOutsKeepGoing(outs,
                     IF u.ok THEN [inPOuts EXCEPT ![numIn + i].val = u.val]
                     ELSE inPOuts,
                     numIn, i + 1)
       IN IF u.ok THEN rest ELSE [rest EXCEPT !.err = OutErr]

\* Lines 242-247: decode outs[i..] into inPOuts[numIn+i..], stopping at the
\* first error.  A destination that is no pointer is an Unmarshal error; a
\* missing destination is an index-out-of-range panic.
RECURSIVE DecodeOuts(_, _, _, _)
DecodeOuts(outs, inPOuts, numIn, i) ==
  IF i > Len(outs) THEN [slots |-> inPOuts, err |-> NoErr, panic |-> FALSE]
  ELSE IF numIn + i > Len(inPOuts)
       THEN [slots |-> inPOuts, err |-> NoErr, panic |-> TRUE]
  ELSE LET dst == inPOuts[numIn + i] IN
       IF dst.t # "ptr" THEN [slots |-> inPOuts, err |-> OutErr, panic |-> FALSE]
       ELSE LET u == Unmarshal(outs[i], dst.typ, dst.val) IN
            IF ~u.ok THEN [slots |-> inPOuts, err |-> OutErr, panic |-> FALSE]
            ELSE DecodeOuts(outs,
                            [inPOuts EXCEPT ![numIn + i].val = u.val],
                            numIn, i + 1)

\* What Call returns for the exchange x: the error and the argument list.
CallResult(x, inPOuts, numIn) ==
  IF x.st # "response"
  THEN [slots |-> inPOuts, err |-> TransportErr, panic |-> FALSE]
  ELSE LET dec == DecodeResponse(x.body) IN
       IF ~dec.ok THEN [slots |-> inPOuts, err |-> BodyErr, panic |-> FALSE]
       ELSE IF dec.res.Code # errCodeOk
            THEN [slots |-> inPOuts, err |-> CodeErr(dec.res.Code), panic |-> FALSE]
       ELSE DecodeOuts(dec.res.Outs.elems, inPOuts, numIn, 1)

CallReturn(c) ==
  /\ call[c].pc = "posted"
  /\ net[c].st \in {"response", "refused", "aborted"}
  /\ LET r == CallResult(net[c], call[c].inPOuts, call[c].numIn) IN
     call' = [call EXCEPT ![c].pc = IF r.panic THEN "panicked" ELSE "done",
                          ![c].inPOuts = r.slots,
                          ![c].err = r.err]
  /\ UNCHANGED <<server, serving, net, handler>>

(***************************************************************************)
(* The system.                                                             *)
(***************************************************************************)
\* The argument lists a caller passes: numIn inputs, then the destinations.
ArgLists(numIn) ==
  {ins \o dests : ins \in [1..numIn -> ArgValues], dests \in {<<>>, <<IntDest>>}}

Next ==
  \E c \in Calls :
    \/ \E numIn \in InCounts, method \in TestedNames :
         \E inPOuts \in ArgLists(numIn) : Call(c, numIn, method, inPOuts)
    \/ PostFail(c)
    \/ \E status \in NonSuccessStatuses : StatusReply(c, status)
    \/ ServeHTTP_Dispatch(c)
    \/ ServeHTTP_Invoke(c)
    \/ CallReturn(c)

Spec == Init /\ [][Next]_vars

(***************************************************************************)
(* One call with every kind of argument: inputs that are integers, a       *)
(* string, a pointer to an integer or a channel; up to two destinations,   *)
(* each a pointer to an int or to a string variable; every method name.    *)
(***************************************************************************)
StrDest == GoPtr("string", GoString(<<>>))
WideArgValues == ArgValues \cup {GoString(<<"a">>), GoPtr("int", GoInt(1)), GoChan}
DestLists ==
  {<<>>} \cup {<<d>> : d \in {IntDest, StrDest}}
         \cup {<<d, e>> : d \in {IntDest, StrDest}, e \in {IntDest, StrDest}}
WideArgLists(numIn) ==
  {ins \o dests : ins \in [1..numIn -> WideArgValues], dests \in DestLists}
\* The call the wide specification makes.
TheCall == "c1"

NextWide ==
  \/ \E numIn \in InCounts, method \in MethodNames :
       \E inPOuts \in WideArgLists(numIn) : Call(TheCall, numIn, method, inPOuts)
  \/ PostFail(TheCall)
  \/ \E status \in NonSuccessStatuses : StatusReply(TheCall, status)
  \/ ServeHTTP_Dispatch(TheCall)
  \/ ServeHTTP_Invoke(TheCall)
  \/ CallReturn(TheCall)

SpecWide == Init /\ [][NextWide]_vars

(***************************************************************************)
(* Progress.  The Go scheduler runs every goroutine that can run: the      *)
(* handler goroutine net/http starts for a request that arrived goes on to *)
(* its end, and Call goes on once PostForm has returned.  Nothing obliges  *)
(* a caller to call, nor the round trip to fail.                           *)
(***************************************************************************)
Fairness ==
  \A c \in Calls :
    /\ WF_vars(ServeHTTP_Dispatch(c))
    /\ WF_vars(ServeHTTP_Invoke(c))
    /\ WF_vars(CallReturn(c))

\* Progress does not depend on the values sent: both calls, every tested
\* name and every count of inputs, each input being 1.
LiveArgLists(numIn) ==
  {ins \o dests : ins \in [1..numIn -> {GoInt(1)}], dests \in {<<>>, <<IntDest>>}}

NextLive ==
  \E c \in Calls :
    \/ \E numIn \in InCounts, method \in TestedNames :
         \E inPOuts \in LiveArgLists(numIn) : Call(c, numIn, method, inPOuts)
    \/ PostFail(c)
    \/ \E status \in NonSuccessStatuses : StatusReply(c, status)
    \/ ServeHTTP_Dispatch(c)
    \/ ServeHTTP_Invoke(c)
    \/ CallReturn(c)

SpecLive == Init /\ [][NextLive]_vars /\ Fairness

(***************************************************************************)
(* What the properties speak about.                                        *)
(***************************************************************************)
\* The declaration of method name in the service (the name is registered).
Declared(name) == CHOOSE m \in Service : m.name = name
IsRegistered(name) == \E m \in Service : m.name = name
DeclaresContext(m) == Len(m.params) >= 1 /\ m.params[1] = pHttpRequestType
\* k: the declared parameters the caller supplies.
NumInputs(m) == IF DeclaresContext(m) THEN Len(m.params) - 1 ELSE Len(m.params)

\* The inputs and the destinations of call c's argument list.
Inputs(c) == SubSeq(call[c].inPOuts, 1, call[c].numIn)
Dests(c) == SubSeq(call[c].inPOuts, call[c].numIn + 1, Len(call[c].inPOuts))

\* Invoking the method directly, in Go, on the first k inputs of call c.
Direct(c) ==
  LET m == Declared(call[c].method) IN
  Invoke(m.name,
         <<[t |-> "receiver"]>>
           \o (IF DeclaresContext(m) THEN <<GoRequest(c)>> ELSE <<>>)
           \o SubSeq(call[c].inPOuts, 1, NumInputs(m)))

\* The request of call c reached the handler (the round trip neither failed
\* nor was answered by the HTTP layer itself).
Dispatched(c) == handler[c].pc # "none"
\* The handler of call c has finished, one way or the other.
Finished(c) == handler[c].pc \in {"returned", "panicked"}
Started(c) == call[c].pc # "idle"

\* Call c supplies exactly the k inputs and m destinations its method declares.
WellFormed(c) ==
  /\ Started(c)
  /\ IsRegistered(call[c].method)
  /\ call[c].numIn = NumInputs(Declared(call[c].method))
  /\ Len(call[c].inPOuts) = call[c].numIn + Declared(call[c].method).numOut

\* The error and the destination values call c yields when it is the only
\* call there is, given how its round trip went: stated on Go values, without
\* the wire.
Alone(c) ==
  LET unchanged == [i \in 1..Len(Dests(c)) |-> GoInt(0)]
      fail(e) == [pc |-> "done", err |-> e, dests |-> unchanged]
  IN
  IF net[c].st = "refused" THEN fail(TransportErr)
  ELSE IF ~Dispatched(c) THEN fail(BodyErr)
  ELSE IF ~IsRegistered(call[c].method) THEN fail(CodeErr(errCodeUnknownMethod))
  ELSE IF call[c].numIn < NumInputs(Declared(call[c].method)) THEN fail(TransportErr)
  ELSE IF Direct(c).fault THEN fail(TransportErr)
  ELSE IF Len(Dests(c)) < Len(Direct(c).outs)
       THEN [pc |-> "panicked", err |-> NoErr, dests |-> unchanged]
  ELSE [pc |-> "done", err |-> NoErr,
        dests |-> [i \in 1..Len(Dests(c)) |->
                     IF i <= Len(Direct(c).outs) THEN Direct(c).outs[i]
                     ELSE GoInt(0)]]

DestValues(c) == [i \in 1..Len(Dests(c)) |-> Dests(c)[i].val]
Returned(c) == call[c].pc \in {"done", "panicked"}

(***************************************************************************)
(* Properties.                                                             *)
(***************************************************************************)

\* C1: a call that supplies the k inputs and m destinations its registered
\* method declares, whose request reached the handler and whose method
\* returns, returns no error and leaves in the destinations, in order, the
\* values the direct invocation of the method on those inputs returns.
CallReturnsDirectResult ==
  \A c \in Calls :
    (WellFormed(c) /\ Dispatched(c) /\ ~Direct(c).fault) =>
      /\ Finished(c) => handler[c].pc = "returned"
      /\ Returned(c) =>
           /\ call[c].pc = "done"
           /\ call[c].err = NoErr
           /\ DestValues(c) = Direct(c).outs

\* C1 witness: Add(1,2) left 3 and Sub(ctx,1,2) left -1 in the destination.
AddAndSubAnswered ==
  \E c, d \in Calls :
    /\ call[c].pc = "done" /\ call[c].method = "Add"
    /\ Inputs(c) = <<GoInt(1), GoInt(2)>>
    /\ call[c].err = NoErr /\ DestValues(c) = <<GoInt(3)>>
    /\ call[d].pc = "done" /\ call[d].method = "Sub"
    /\ Inputs(d) = <<GoInt(1), GoInt(2)>>
    /\ call[d].err = NoErr /\ DestValues(d) = <<GoInt(0 - 1)>>

\* C2: a call addressed to a name the registry does not hold returns a
\* structured RPC error whose code is UnknownMethod and whose Info is the name.
UnknownMethodIsRpcError ==
  \A c \in Calls :
    (call[c].pc = "done" /\ Dispatched(c) /\ ~IsRegistered(call[c].method)) =>
      /\ call[c].err.kind = "RpcError"
      /\ call[c].err.Code = errCodeUnknownMethod
      /\ call[c].err.Info = call[c].method

\* C3: when the invoked method panics, the request is answered with a Panic
\* envelope and the call returns a structured error whose code is Panic and
\* whose Info is the panic's text.
PanicIsAnswered ==
  \A c \in Calls :
    (handler[c].pc = "panicked" /\ handler[c].info = FaultText) =>
      /\ net[c].st = "response"
      /\ DecodeResponse(net[c].body).ok
      /\ DecodeResponse(net[c].body).res.Code = ErrCodePanic
      /\ call[c].pc = "done" =>
           /\ call[c].err.kind = "RpcError"
           /\ call[c].err.Code = ErrCodePanic
           /\ call[c].err.Info = FaultText

EveryDispatchWritesEnvelope ==
  \A c \in Calls :
    Finished(c) =>
      /\ net[c].st = "response"
      /\ net[c].status = StatusOK
      /\ DecodeResponse(net[c].body).ok

\* C6: whatever the interleaving, each dispatch is invoked with the receiver,
\* its own request and its own inputs, and each call returns the error and
\* the destination values it returns when run alone.
NoInterference ==
  \A c \in Calls :
    /\ (handler[c].pc \in {"assembled", "returned"}
          /\ IsRegistered(call[c].method)) =>
         handler[c].callArr =
           <<[t |-> "receiver"]>>
             \o (IF DeclaresContext(Declared(call[c].method))
                 THEN <<GoRequest(c)>> ELSE <<>>)
             \o SubSeq(call[c].inPOuts, 1, NumInputs(Declared(call[c].method)))
    /\ Returned(c) =>
         /\ call[c].pc = Alone(c).pc
         /\ call[c].err = Alone(c).err
         /\ DestValues(c) = Alone(c).dests

\* C6 witness: two dispatches of the same method with different inputs are
\* under way at once, and so are the two calls.
TwoDispatchesUnderWay ==
  \E c, d \in Calls :
    /\ c # d
    /\ handler[c].pc = "assembled" /\ handler[d].pc = "assembled"
    /\ call[c].method = call[d].method
    /\ Inputs(c) # Inputs(d)
    /\ call[c].pc = "posted" /\ call[d].pc = "posted"

\* C7: a method whose first declared parameter is *http.Request is invoked
\* with the request of its own dispatch in that place, and a call with k
\* inputs addresses it when it declares k+1 parameters: the k inputs follow
\* the request in order.
ContextIsOwnRequest ==
  \A c \in Calls :
    (Started(c) /\ IsRegistered(call[c].method)
       /\ DeclaresContext(Declared(call[c].method))
       /\ call[c].numIn + 1 = Len(Declared(call[c].method).params)) =>
      /\ handler[c].pc # "panicked"
      /\ handler[c].pc \in {"assembled", "returned"} =>
           /\ Len(handler[c].callArr) = Len(Declared(call[c].method).params) + 1
           /\ handler[c].callArr[2] = GoRequest(c)
           /\ \A i \in 1..call[c].numIn :
                handler[c].callArr[2 + i] = call[c].inPOuts[i]

\* C7 witness: Sub was invoked for a call with two inputs.
SubInvoked ==
  \E c \in Calls :
    /\ call[c].method = "Sub" /\ call[c].numIn = 2
    /\ handler[c].pc = "returned"
    /\ Len(handler[c].callArr) = 4

\* C8: when the round trip ends with a non-success status, the call returns a
\* ServerError whose Info encodes the status and writes no destination.
NonSuccessIsServerError ==
  \A c \in Calls :
    (call[c].pc = "done" /\ net[c].st = "response"
       /\ net[c].status # StatusOK) =>
      /\ call[c].err.kind = "RpcError"
      /\ call[c].err.Code = ErrCodeServerError
      /\ call[c].err.Info = IntToJson(net[c].status)
      /\ \A i \in 1..Len(Dests(c)) : Dests(c)[i].val = GoInt(0)

\* C9: the registry is, in every state, the one NewServer built: no dispatch
\* adds, removes or alters an entry.
RegistryNeverChanges == server = NewServer(Service)

\* C9 witness: an unknown name and a registered name have both been
\* dispatched.
BothKindsDispatched ==
  \E c, d \in Calls :
    /\ handler[c].pc = "returned" /\ ~IsRegistered(call[c].method)
    /\ handler[d].pc = "returned" /\ IsRegistered(call[d].method)

\* C10: every envelope the handler wrote has no outs when its code is not
\* Ok, and when its code is Ok has one entry per declared output, entry i
\* being the JSON text of the i-th returned value.
EnvelopeShape ==
  \A c \in Calls :
    handler[c].pc = "returned" =>
      LET body == net[c].body IN
      /\ net[c].st = "response"
      /\ body.obj
      /\ body.Code # IntToJson(errCodeOk) => Len(body.Outs.items) = 0
      /\ body.Code = IntToJson(errCodeOk) =>
           /\ IsRegistered(call[c].method)
           /\ Len(body.Outs.items) = Declared(call[c].method).numOut
           /\ \A i \in 1..Len(body.Outs.items) :
                body.Outs.items[i] =
                  QuoteJson(IntToJson(
                    Invoke(call[c].method, handler[c].callArr).outs[i].n))

\* C10 witness: an Ok envelope with one entry and an UnknownMethod envelope
\* have been written.
BothEnvelopesWritten ==
  \E c, d \in Calls :
    /\ handler[c].pc = "returned" /\ net[c].st = "response"
    /\ net[c].body.Code = IntToJson(errCodeOk)
    /\ Len(net[c].body.Outs.items) = 1
    /\ handler[d].pc = "returned" /\ net[d].st = "response"
    /\ net[d].body.Code = IntToJson(errCodeUnknownMethod)

\* C11: every call that returns an error returns a structured error value
\* with a code that discriminates the failure and a diagnostic text, whatever
\* the failure was: an input that did not encode, a failed round trip, a
\* non-success status, an envelope whose code is not Ok, or an output that
\* did not decode.
EveryFailureIsStructured ==
  \A c \in Calls :
    (call[c].pc = "done" /\ call[c].err # NoErr) =>
      /\ call[c].err.kind = "RpcError"
      /\ "Code" \in DOMAIN call[c].err
      /\ "Info" \in DOMAIN call[c].err

\* C12: a request naming a method the registry does not hold is answered at
\* once: its dispatch has returned, under the success status, with an
\* envelope whose code is UnknownMethod; it never stands before an invocation
\* and it decoded no argument.
UnknownMethodAnsweredAtOnce ==
  \A c \in Calls :
    (Dispatched(c) /\ ~IsRegistered(call[c].method)) =>
      /\ handler[c].pc = "returned"
      /\ handler[c].callArr = <<>>
      /\ net[c].st = "response"
      /\ net[c].status = StatusOK
      /\ DecodeResponse(net[c].body).ok
      /\ DecodeResponse(net[c].body).res.Code = errCodeUnknownMethod

\* C12 witness: a request for Xyz that carried two inputs has been answered.
UnknownMethodWithInputsAnswered ==
  \E c \in Calls :
    /\ call[c].method = "Xyz" /\ call[c].numIn = 2
    /\ handler[c].pc = "returned"
    /\ call[c].pc = "done"

\* What decoding the encoding of the Go value v into a fresh variable of type
\* typ leaves there, stated on Go values: the integer itself, the integer a
\* pointer leads to, and the zero value for anything that is no integer.
DecodedAs(v, typ) ==
  IF typ = "int" /\ v.t = "int" THEN v
  ELSE IF typ = "int" /\ v.t = "ptr" /\ v.val.t = "int" THEN v.val
  ELSE ZeroValue(typ)

\* The argument list the method of call c is to be invoked on: receiver, the
\* request when declared, then the first k inputs as DecodedAs leaves them.
ExpectedArgs(c) ==
  LET m == Declared(call[c].method) IN
  <<[t |-> "receiver"]>>
    \o (IF DeclaresContext(m) THEN <<GoRequest(c)>> ELSE <<>>)
    \o [i \in 1..NumInputs(m) |->
          DecodedAs(call[c].inPOuts[i], m.params[Len(m.params) - NumInputs(m) + i])]

\* C13: when an input of a dispatched request does not decode into its
\* parameter's type, that argument is the type's zero value and every other
\* argument is the value sent; the method is still invoked on them, and when
\* it returns the response is the Ok envelope with its results on them.
UndecodableInputIsZero ==
  \A c \in Calls :
    (Dispatched(c) /\ IsRegistered(call[c].method)
       /\ call[c].numIn >= NumInputs(Declared(call[c].method))) =>
      /\ handler[c].callArr = ExpectedArgs(c)
      /\ ~Invoke(call[c].method, ExpectedArgs(c)).fault =>
           /\ handler[c].pc \in {"assembled", "returned"}
           /\ handler[c].pc = "returned" =>
                /\ net[c].st = "response" /\ net[c].status = StatusOK
                /\ net[c].body =
                     OkReply(Invoke(call[c].method, ExpectedArgs(c)).outs)

\* C13 witness: Add("a", 2) was invoked as Add(0, 2) and answered 2; and
\* Swap(1, "a") was answered (0, 1).
StringInputAnswered ==
  /\ call[TheCall].pc = "done"
  /\ call[TheCall].method \in {"Add", "Swap"}
  /\ call[TheCall].numIn = 2
  /\ \E i \in 1..2 : call[TheCall].inPOuts[i] = GoString(<<"a">>)
  /\ \E i \in 1..2 : call[TheCall].inPOuts[i].t = "int"
  /\ handler[TheCall].pc = "returned"
  /\ call[TheCall].err = NoErr
  /\ \E i \in 1..Len(Dests(TheCall)) : Dests(TheCall)[i].val \in ArgValues

\* The exchange of call c holds a response under the success status whose
\* body decodes as an envelope with code Ok.
OkEnvelope(c) ==
  /\ net[c].st = "response"
  /\ net[c].status = StatusOK
  /\ DecodeResponse(net[c].body).ok
  /\ DecodeResponse(net[c].body).res.Code = errCodeOk

\* The destinations of call c, by position, whose type is not the type of the
\* value the method returned at that position.
Misfits(c) ==
  LET outs == Invoke(call[c].method, ExpectedArgs(c)).outs IN
  {i \in 1..Len(outs) : i <= Len(Dests(c)) /\ Dests(c)[i].typ # outs[i].t}

\* C14: a call that returned on an Ok envelope returns no error when every
\* output fits its destination, and else the decode error of the first output
\* that does not; the destinations before that one hold the values the method
\* returned, in order, and that one and every later one hold what they held.
DecodeStopsAtFirstFailure ==
  \A c \in Calls :
    (call[c].pc = "done" /\ IsRegistered(call[c].method) /\ OkEnvelope(c)) =>
      LET outs == Invoke(call[c].method, ExpectedArgs(c)).outs
          first == IF Misfits(c) = {} THEN Len(outs) + 1
                   ELSE CHOOSE i \in Misfits(c) : \A j \in Misfits(c) : i <= j
      IN /\ call[c].err = IF Misfits(c) = {} THEN NoErr ELSE OutErr
         /\ \A i \in 1..Len(Dests(c)) :
              Dests(c)[i].val = IF i < first THEN outs[i]
                                ELSE ZeroValue(Dests(c)[i].typ)

\* C14 witness: Swap(1, 2) returned into an int and a string variable: the
\* first holds 2, the second is untouched, and the call returned the error.
SecondOutputMisfit ==
  /\ call[TheCall].pc = "done" /\ call[TheCall].method = "Swap"
  /\ Inputs(TheCall) = <<GoInt(1), GoInt(2)>>
  /\ OkEnvelope(TheCall)
  /\ call[TheCall].err = OutErr
  /\ Dests(TheCall) = <<GoPtr("int", GoInt(2)), StrDest>>

\* C15: a call that returned on an envelope whose code is not Ok returns an
\* error that carries that code and the envelope's info, and its destinations
\* hold what they held.
ErrorCarriesCodeAndInfo ==
  \A c \in Calls :
    (call[c].pc = "done" /\ net[c].st = "response" /\ net[c].status = StatusOK
       /\ DecodeResponse(net[c].body).ok
       /\ DecodeResponse(net[c].body).res.Code # errCodeOk) =>
      LET res == DecodeResponse(net[c].body).res IN
      /\ "Code" \in DOMAIN call[c].err
      /\ call[c].err.Code = res.Code
      /\ "Info" \in DOMAIN res
      /\ "Info" \in DOMAIN call[c].err
      /\ call[c].err.Info = res.Info
      /\ \A i \in 1..Len(Dests(c)) :
           Dests(c)[i].val = ZeroValue(Dests(c)[i].typ)

\* A Go value encoding/json can encode: anything here but a channel.
Encodable(v) == v.t # "chan"
\* The value encoding/json encodes for v: what a pointer leads to, else v.
Pointee(v) == IF v.t = "ptr" THEN v.val ELSE v

\* C16: a call one of whose first N values cannot be encoded has returned the
\* encoding error: no request was sent, so no dispatch began, and its
\* destinations hold what they held.  A request that was sent carries the
\* method name and the encodings of the first N values, in order, and nothing
\* of the destinations.
EncodeFailsFast ==
  \A c \in Calls :
    Started(c) =>
      IF \E i \in 1..call[c].numIn : ~Encodable(call[c].inPOuts[i])
      THEN /\ call[c].pc = "done"
           /\ call[c].err = MarshalErr
           /\ net[c] = NoExchange
           /\ handler[c] = NoHandler
           /\ \A i \in 1..Len(Dests(c)) :
                Dests(c)[i].val = ZeroValue(Dests(c)[i].typ)
      ELSE /\ net[c] # NoExchange
           /\ net[c].st = "request" =>
                /\ net[c].method = call[c].method
                /\ Len(net[c].in) = call[c].numIn
                /\ \A i \in 1..call[c].numIn :
                     LET v == Pointee(call[c].inPOuts[i])
                         u == Unmarshal(net[c].in[i], v.t, ZeroValue(v.t))
                     IN u.ok /\ u.val = v

\* C16 witness: a call to a registered method whose first input is an integer
\* and whose second is a channel has returned, two destinations supplied.
ChannelInputReturned ==
  /\ call[TheCall].pc = "done"
  /\ call[TheCall].numIn = 2
  /\ call[TheCall].inPOuts[1] \in ArgValues
  /\ call[TheCall].inPOuts[2] = GoChan
  /\ Len(Dests(TheCall)) = 2
  /\ IsRegistered(call[TheCall].method)

\* Call c supplies a destination for every output of its method.
EnoughDests(c) ==
  IsRegistered(call[c].method) =>
    Len(Dests(c)) >= Declared(call[c].method).numOut

\* C17: every call that began, with a destination for every output,
\* eventually returns, with an error or without: whether its method is
\* unknown, panics or returns, whether its round trip fails or is answered by
\* the HTTP layer, and whatever the other call does.
CallEventuallyReturns ==
  \A c \in Calls :
    (Started(c) /\ EnoughDests(c)) ~> (call[c].pc = "done")

\* C17 witness: a call to Panic has returned while the other call, to an
\* unknown method, has returned too.
FaultingAndUnknownReturned ==
  \E c, d \in Calls :
    /\ call[c].method = "Panic" /\ handler[c].pc = "panicked"
    /\ call[c].pc = "done"
    /\ call[d].method = "Xyz" /\ handler[d].pc = "returned"
    /\ call[d].pc = "done"

\* C18: the registry holds exactly one descriptor per method of the service,
\* under the method's name; the descriptor names that method, tells whether
\* its first parameter is the request, and lists as input types the declared
\* parameters after the request when it is first, and all of them otherwise,
\* in order: none for a method with no parameter or with the request alone.
RegistryDescribesService ==
  /\ DOMAIN server.methods = {m.name : m \in Service}
  /\ Cardinality(DOMAIN server.methods) = Cardinality(Service)
  /\ \A m \in Service :
       LET mi == server.methods[m.name]
           k == NumInputs(m)
       IN /\ mi.funcValue = m.name
          /\ mi.needRequest = DeclaresContext(m)
          /\ Len(mi.inTypes) = k
          /\ \A i \in 1..k : mi.inTypes[i] = m.params[Len(m.params) - k + i]
          /\ pHttpRequestType \notin {mi.inTypes[i] : i \in 1..k}

\* C18 witness: with the registry built, a call to Ping, whose only parameter
\* is the request, was dispatched on a descriptor with no input type and
\* answered; Panic, with no parameter, has a descriptor with none either.
RequestAloneRegistered ==
  /\ server.methods["Ping"] =
       [funcValue |-> "Ping", needRequest |-> TRUE, inTypes |-> <<>>]
  /\ server.methods["Panic"] =
       [funcValue |-> "Panic", needRequest |-> FALSE, inTypes |-> <<>>]
  /\ call[TheCall].method = "Ping" /\ call[TheCall].numIn = 0
  /\ handler[TheCall].pc = "returned"
  /\ handler[TheCall].callArr = <<[t |-> "receiver"], GoRequest(TheCall)>>

\* The method of call c is about to be invoked or was invoked: its dispatch
\* stands before the invocation, returned from it, or panicked in it.
AtInvocation(c) ==
  /\ IsRegistered(call[c].method)
  /\ \/ handler[c].pc \in {"assembled", "returned"}
     \/ handler[c].pc = "panicked" /\ handler[c].info = FaultText

\* C19: at every invocation the argument list has one entry for the receiver,
\* one for the request when the method declares it, and one per declared
\* input, k in all, however many "in" values the request carried; the values
\* beyond the k-th are in no entry.  A dispatch for a registered method whose
\* request carried fewer than k values panicked assembling the list, never
\* reaching the invocation.
ArgListHasDeclaredLength ==
  \A c \in Calls :
    /\ AtInvocation(c) =>
         LET m == Declared(call[c].method) IN
         /\ call[c].numIn >= NumInputs(m)
         /\ Len(handler[c].callArr)
              = 1 + (IF DeclaresContext(m) THEN 1 ELSE 0) + NumInputs(m)
         /\ handler[c].callArr = ExpectedArgs(c)
    /\ (Dispatched(c) /\ IsRegistered(call[c].method)
          /\ call[c].numIn < NumInputs(Declared(call[c].method))) =>
         /\ handler[c].pc = "panicked"
         /\ handler[c].info # FaultText
         /\ handler[c].callArr = <<>>

\* C19 witness: Ping, which declares the request and no input, was called
\* with two inputs and invoked on the receiver and the request alone.
ExtraInputsIgnored ==
  /\ call[TheCall].method = "Ping" /\ call[TheCall].numIn = 2
  /\ handler[TheCall].pc = "returned"
  /\ Len(handler[TheCall].callArr) = 2
  /\ call[TheCall].pc = "done" /\ call[TheCall].err = NoErr

\* Call c returned no error.
ReturnedNil(c) == call[c].pc = "done" /\ call[c].err = NoErr

\* What a nil return of call c rests on: a response came back, its body is an
\* envelope with code Ok, and each entry of its outs decodes into the
\* destination at the same position, which holds the decoded value.
NilIsEarned(c) ==
  /\ net[c].st = "response"
  /\ DecodeResponse(net[c].body).ok
  /\ DecodeResponse(net[c].body).res.Code = errCodeOk
  /\ LET outs == DecodeResponse(net[c].body).res.Outs.elems IN
     /\ Len(Dests(c)) >= Len(outs)
     /\ \A i \in 1..Len(outs) :
          LET dst == call[c].inPOuts[call[c].numIn + i]
              u == Unmarshal(outs[i], dst.typ, ZeroValue(dst.typ))
          IN u.ok /\ dst.val = u.val

\* C20: in every step, a call that comes to return no error has earned it,
\* and a call that began keeps its argument list but for the values its
\* destinations hold: the first N entries, the inputs, are never written,
\* even those that are pointers.
CallWritesOnlyOutputs ==
  [][\A c \in Calls :
       /\ ReturnedNil(c)' => NilIsEarned(c)'
       /\ Started(c) =>
            /\ Len(call'[c].inPOuts) = Len(call[c].inPOuts)
            /\ call'[c].numIn = call[c].numIn
            /\ \A i \in 1..call[c].numIn :
                 call'[c].inPOuts[i] = call[c].inPOuts[i]
            /\ \A i \in (call[c].numIn + 1)..Len(call[c].inPOuts) :
                 /\ call'[c].inPOuts[i].t = call[c].inPOuts[i].t
                 /\ call'[c].inPOuts[i].typ = call[c].inPOuts[i].typ]_vars

\* C20 witness: Add(p, 2), p a pointer to 1, returned no error; the
\* destination holds 3 and p still leads to 1.
PointerInputKept ==
  /\ ReturnedNil(TheCall) /\ call[TheCall].method = "Add"
  /\ call[TheCall].inPOuts =
       <<GoPtr("int", GoInt(1)), GoInt(2), GoPtr("int", GoInt(3))>>

====
